---- MODULE Spec2Model ----
(***************************************************************************)
(* A model of the channel runtime of poly-runtime: data channels,          *)
(* automatic channels, index specifiers, and the list and dictionary       *)
(* channels of the standard library.                                       *)
(*                                                                         *)
(* Reading of src/src/channel.ts: markDirty names its parameter            *)
(* `operation` and uses it as `indexSpecifier`, and it calls the edge's    *)
(* connector as connector(i, {type: "Dirty", indices}) while the data      *)
(* channels call it as connector(indexSpecifier).  Every connector of the  *)
(* sources ((index) => index, () => indexAll) returns an index specifier   *)
(* and no cache modifier.  The model takes the parameter to be the index   *)
(* specifier and a connector to map the upstream region to the downstream  *)
(* region, at both call sites.                                             *)
(***************************************************************************)
EXTENDS Integers, Sequences, FiniteSets, TLC

VARIABLES
  data,        \* DataChannel._data, per data channel
  cachedData,  \* AutomaticChannel.cachedData, per automatic channel
  dirty,       \* AutomaticChannel.dirty, per automatic channel
  op,          \* the last operation called on the runtime, with what it saw
  log,         \* the calls made inside the last operation, in order
  ret,         \* the value the last operation returned
  pending,     \* per automatic channel: upstream mutations since its last read
  everRead,    \* per automatic channel: whether its data was ever read
  constructed  \* the automatic channels constructed at run time, in order

vars ==
  <<data, cachedData, dirty, op, log, ret, pending, everRead, constructed>>

(***************************************************************************)
(* Bounds of the model.                                                    *)
(***************************************************************************)
MaxTimes == 2      \* the Number source `times` ranges over 0..MaxTimes
MaxLen == 3        \* lists grow to at most MaxLen items
MaxPending == 2    \* at most MaxPending mutations between two reads of a channel
MaxKeys == 2       \* key lists given to the index specifier functions

ListVals == {1, 2}         \* items written to the List source
DictVals == {1, 2}         \* values written to the Dictionary source

(***************************************************************************)
(* Keys (indexSpecifier.ts: Key = string | symbol | number).  A key keeps  *)
(* whether it is a number and the property name JavaScript gives it.       *)
(***************************************************************************)
NumKey(i) == [num |-> TRUE, name |-> ToString(i)]
StrKey(s) == [num |-> FALSE, name |-> s]
NoKey == StrKey("")

\* The array index a numeric key stands for.
NumKeyNames == [i \in 0..(MaxLen + 2) |-> ToString(i)]
KeyIndex(k) == CHOOSE i \in DOMAIN NumKeyNames : NumKeyNames[i] = k.name

\* Properties every object literal {} inherits from Object.prototype with a
\* truthy value (a representative part of them).
ObjectPrototypeNames == {"constructor", "toString", "valueOf", "__proto__"}

(***************************************************************************)
(* Index specifiers.                                                       *)
(***************************************************************************)
indexAll == [indexType |-> "All"]
indexNone == [indexType |-> "None"]
indices(keys) == [indexType |-> "Indices", indices |-> keys]

\* An emptiness test that never finds a specifier empty.
indexEmptyNever(indexSpecifier) == FALSE

indexEmpty(indexSpecifier) ==
  IF indexSpecifier.indexType = "None" THEN TRUE
  ELSE IF indexSpecifier.indexType = "Indices"
       THEN Len(indexSpecifier.indices) = 0
       ELSE FALSE

\* A membership test that compares keys by their property name, so that the
\* number 1 and the string "1" are one key.
indexHasByName(indexSpecifier, index) ==
  IF indexSpecifier.indexType = "All" THEN TRUE
  ELSE IF indexSpecifier.indexType = "None" THEN FALSE
  ELSE \E j \in 1..Len(indexSpecifier.indices) :
          indexSpecifier.indices[j].name = index.name

indexHas(indexSpecifier, index) ==
  IF indexSpecifier.indexType = "All" THEN TRUE
  ELSE IF indexSpecifier.indexType = "None" THEN FALSE
  ELSE \E j \in 1..Len(indexSpecifier.indices) : indexSpecifier.indices[j] = index

\* A normalization that returns every specifier as it is.
normalizeKeeps(indexSpecifier) == indexSpecifier

normalizeIndexSpecifier(indexSpecifier) ==
  IF indexEmpty(indexSpecifier) THEN indexNone ELSE indexSpecifier

\* A merge loop that forgets to skip the keys already merged.
MergeLoopNoDedup(keys, j, merged, newIndices) ==
  [merged |-> merged, newIndices |-> newIndices \o SubSeq(keys, j, Len(keys))]

\* The loop of mergeIndexSpecifiers over one list of keys: `merged` is the set
\* of property names for which merged[index] is truthy, `newIndices` the keys
\* pushed so far.
RECURSIVE MergeLoop(_, _, _, _)
MergeLoop(keys, j, merged, newIndices) ==
  IF j > Len(keys) THEN [merged |-> merged, newIndices |-> newIndices]
  ELSE IF keys[j].name \in merged
       THEN MergeLoop(keys, j + 1, merged, newIndices)
       ELSE MergeLoop(keys, j + 1, merged \cup {keys[j].name},
                      Append(newIndices, keys[j]))

\* A merge that forgets the base specifier.
mergeForgetsBase(baseSpecifier, newSpecifier) ==
  normalizeIndexSpecifier(newSpecifier)

mergeIndexSpecifiers(baseSpecifier, newSpecifier) ==
  IF baseSpecifier.indexType = "All" \/ newSpecifier.indexType = "All"
  THEN indexAll
  ELSE IF baseSpecifier.indexType = "None"
       THEN normalizeIndexSpecifier(newSpecifier)
  ELSE IF newSpecifier.indexType = "None"
       THEN normalizeIndexSpecifier(baseSpecifier)
  ELSE LET first == MergeLoop(baseSpecifier.indices, 1, ObjectPrototypeNames, <<>>)
           second == MergeLoop(newSpecifier.indices, 1, first.merged,
                               first.newIndices)
       IN normalizeIndexSpecifier(indices(second.newIndices))

(***************************************************************************)
(* JavaScript arrays: a length and the items that are set (an index below  *)
(* the length with no item is a hole).  Index i of the source is at[i].    *)
(***************************************************************************)
Arr(seq) == [length |-> Len(seq), at |-> [i \in 0..(Len(seq) - 1) |-> seq[i + 1]]]

\* array[i] = v
ArrSet(array, i, v) ==
  [length |-> IF i + 1 > array.length THEN i + 1 ELSE array.length,
   at |-> [j \in DOMAIN array.at \cup {i} |-> IF j = i THEN v ELSE array.at[j]]]

\* array.push(v)
ArrPush(array, v) == ArrSet(array, array.length, v)

\* array.splice(index, 0, v): index is clamped to the length, the items from
\* there on move up by one
ArrInsert(array, index, v) ==
  LET start == IF index > array.length THEN array.length ELSE index
      moved == {j + 1 : j \in {k \in DOMAIN array.at : k >= start}}
      kept == {k \in DOMAIN array.at : k < start}
  IN [length |-> array.length + 1,
      at |-> [j \in kept \cup {start} \cup moved |->
                IF j < start THEN array.at[j]
                ELSE IF j = start THEN v
                ELSE array.at[j - 1]]]

\* A JavaScript object with its own properties in insertion order: the record
\* { k1: v1, k2: v2, ... }, and object[name] = v
Obj(keys, values) ==
  [keys |-> keys,
   at |-> [name \in {keys[j] : j \in 1..Len(keys)} |->
             values[CHOOSE j \in 1..Len(keys) : keys[j] = name]]]
ObjSet(object, name, v) ==
  [keys |-> IF name \in DOMAIN object.at THEN object.keys
            ELSE Append(object.keys, name),
   at |-> [n \in DOMAIN object.at \cup {name} |->
             IF n = name THEN v ELSE object.at[n]]]

\* A range that holds its start only.
rangeFirstOnly(inclusiveStart, exclusiveEnd) == <<NumKey(inclusiveStart)>>

\* util.ts range(inclusiveStart, exclusiveEnd), for inclusiveStart <=
\* exclusiveEnd, as a list of numeric keys
range(inclusiveStart, exclusiveEnd) ==
  [j \in 1..(exclusiveEnd - inclusiveStart) |-> NumKey(inclusiveStart + j - 1)]

\* new Array(exclusiveEnd - inclusiveStart) raises a RangeError for a negative
\* length
rangeThrows(inclusiveStart, exclusiveEnd) == exclusiveEnd - inclusiveStart < 0

(***************************************************************************)
(* The channels.  Data channels:                                           *)
(*   times = new Number(..), text = new String(..), list = new List(..),   *)
(*   dictionary = new Dictionary(..)                                       *)
(* Automatic channels, in the order they are constructed:                  *)
(*   textTimes = String.repeat(text, times)                                *)
(*   timesTwice = Number.add(times, times)                                 *)
(*   textTimesTwice = String.repeat(textTimes, timesTwice)                 *)
(*   listMap = list.map((x) => 10 - x)                                     *)
(*   dictionaryMap = dictionary.map((x) => x * 2)                          *)
(* A second List and Dictionary, numbers and record, with the whole-value  *)
(* derivations of the library and one automatic channel of two inputs      *)
(* whose connector list is shorter than its input list:                    *)
(*   sum = Number.sum(numbers)                                             *)
(*   keys = record.keys(), values = record.values(),                       *)
(*   entries = record.entries()                                            *)
(*   total = new AutomaticChannel([numbers, record],                       *)
(*             (numbers, record) => sum(numbers) +                         *)
(*                                  sum(Object.values(record)),            *)
(*             [(index) => index])                                         *)
(* Two Lists held as the values of a Dictionary, and its map, whose        *)
(* function constructs the map of a List each time it is called:           *)
(*   list1 = new List(..), list2 = new List(..)                            *)
(*   listDictionary = new Dictionary({ a: list1, b: list2 })               *)
(*   dictionaryTimes2 = listDictionary.map((numbers) =>                    *)
(*                        numbers.map((x) => x * 2))                       *)
(*   list1Times2, list2Times2: the channels the function constructs        *)
(* Channels constructed while the program runs:                            *)
(*   fragment = new Fragment(textTimesTwice), eager                        *)
(*   noInputs = new AutomaticChannel([], () => 0), which is refused        *)
(*   listWatch = list.map((x) => 10 - x) with listWatch.eager = true       *)
(*   listChecked = list.map((x) => { if (x === 0) throw new Error();       *)
(*                                   return 10 - x })                      *)
(*   watcher = new AutomaticChannel([textTimes], (text) => {               *)
(*               if (text === "") throw new Error(); return text },        *)
(*               [], undefined, true)                                      *)
(***************************************************************************)
DataChannels ==
  {"times", "text", "list", "dictionary", "numbers", "record",
   "list1", "list2", "listDictionary"}
AutomaticChannels ==
  <<"textTimes", "timesTwice", "textTimesTwice", "listMap", "dictionaryMap",
    "sum", "keys", "values", "entries", "total", "dictionaryTimes2">>

\* The automatic channels constructed while the program runs
PoolChannels ==
  {"list1Times2", "list2Times2", "fragment", "noInputs", "listWatch",
   "listChecked", "watcher", "fragmentCopy", "checkedWatch", "checkedCopy"}

\* A channel held as a value, and the channel list.map constructs for a List
Ref(c) == [channel |-> c]
MapOf(s) == IF s = "list1" THEN "list1Times2" ELSE "list2Times2"

Automatic ==
  {AutomaticChannels[j] : j \in 1..Len(AutomaticChannels)} \cup PoolChannels

incomingChannels(c) ==
  CASE c = "textTimes" -> <<"text", "times">>
    [] c = "timesTwice" -> <<"times", "times">>
    [] c = "textTimesTwice" -> <<"textTimes", "timesTwice">>
    [] c = "listMap" -> <<"list">>
    [] c = "dictionaryMap" -> <<"dictionary">>
    [] c = "sum" -> <<"numbers">>
    [] c \in {"keys", "values", "entries"} -> <<"record">>
    [] c = "total" -> <<"numbers", "record">>
    [] c = "dictionaryTimes2" -> <<"listDictionary">>
    [] c = "list1Times2" -> <<"list1">>
    [] c = "list2Times2" -> <<"list2">>
    [] c = "fragment" -> <<"textTimesTwice">>
    [] c = "noInputs" -> <<>>
    [] c \in {"listWatch", "listChecked"} -> <<"list">>
    [] c = "watcher" -> <<"textTimes">>
    [] c = "fragmentCopy" -> <<"fragment">>
    [] c \in {"checkedWatch", "checkedCopy"} -> <<"listChecked">>

\* The connectorMap argument of the constructor: "identity" is (index) => index
connectorMap(c) ==
  CASE c \in {"listMap", "dictionaryMap", "total", "dictionaryTimes2",
               "list1Times2", "list2Times2", "listWatch", "listChecked"} ->
         <<"identity">>
    [] OTHER -> <<>>

\* No channel is given an updateIndexFunction.
hasNoUpdateIndexFunction(c) == FALSE

\* Whether the constructor was given an updateIndexFunction
hasUpdateIndexFunction(c) ==
  c \in {"listMap", "dictionaryMap", "dictionaryTimes2", "list1Times2",
         "list2Times2", "listWatch", "listChecked"}

\* Every channel is eager.
eagerAlways(c) == TRUE

\* No channel is eager.
eagerNever(c) == FALSE

\* The eager flag of the channel
eager(c) ==
  c \in {"fragment", "listWatch", "watcher", "fragmentCopy", "checkedWatch"}

\* Incoming connectors where a missing connector is (index) => index.
incomingConnectorsIdentity(c) ==
  [i \in 1..Len(incomingChannels(c)) |-> "identity"]

\* incomingConnectors: a missing connector is () => indexAll
incomingConnectors(c) ==
  [i \in 1..Len(incomingChannels(c)) |->
     IF i - 1 >= Len(connectorMap(c)) THEN "all" ELSE connectorMap(c)[i]]

\* A constructor that connects a channel once to each of its inputs, however
\* often the input is listed.
EdgesFromOnce(c, u, i) ==
  IF \E j \in i..Len(incomingChannels(c)) : incomingChannels(c)[j] = u
  THEN LET first == CHOOSE j \in i..Len(incomingChannels(c)) :
                       /\ incomingChannels(c)[j] = u
                       /\ \A k \in i..(j - 1) : incomingChannels(c)[k] # u
       IN <<[channel |-> c, connector |-> incomingConnectors(c)[first],
             input |-> first - 1]>>
  ELSE <<>>

\* The edges the constructor of automatic channel c pushes onto the
\* connectedChannels of u, for its inputs from position i on; `input` notes
\* the position in incomingChannels the connector was taken from
RECURSIVE EdgesFrom(_, _, _)
EdgesFrom(c, u, i) ==
  IF i > Len(incomingChannels(c)) THEN <<>>
  ELSE (IF incomingChannels(c)[i] = u
        THEN <<[channel |-> c, connector |-> incomingConnectors(c)[i],
                input |-> i - 1]>>
        ELSE <<>>) \o EdgesFrom(c, u, i + 1)

\* connectedChannels of u once the first n automatic channels are constructed
RECURSIVE ConnectedAfter(_, _)
ConnectedAfter(u, n) ==
  IF n = 0 THEN <<>>
  ELSE ConnectedAfter(u, n - 1) \o EdgesFrom(AutomaticChannels[n], u, 1)

\* connectedChannels of every channel, after construction
connectedChannels ==
  [u \in DataChannels \cup Automatic |-> ConnectedAfter(u, Len(AutomaticChannels))]

\* The edges the channels of `made`, constructed in that order, pushed onto the
\* connectedChannels of u
RECURSIVE ConnectedBy(_, _)
ConnectedBy(made, u) ==
  IF made = <<>> THEN <<>>
  ELSE ConnectedBy(SubSeq(made, 1, Len(made) - 1), u)
         \o EdgesFrom(made[Len(made)], u, 1)

\* A connector that maps every region to All.
ConnectorAlwaysAll(connector, region) == indexAll

\* What a connector returns for a region of its upstream
Connector(connector, region) ==
  IF connector = "identity" THEN region ELSE indexAll

(***************************************************************************)
(* The functions given to the automatic channels.                          *)
(***************************************************************************)
\* String.repeat's loop; a string is the sequence of its characters
RECURSIVE repeat(_, _)
repeat(text, times) ==
  IF times <= 0 THEN <<>> ELSE repeat(text, times - 1) \o text

add(n1, n2) == n1 + n2

\* The function mapped over the list, and over the dictionary
listFn(item) == 10 - item
dictionaryFn(value) == value * 2

\* What listFn gives for a missing item (10 - undefined)
NaN == 0 - 1

\* numbers.map((x) => x * 2), the function mapped over the lists held in the
\* dictionary
listTimes2All(list) ==
  [length |-> list.length, at |-> [i \in DOMAIN list.at |-> list.at[i] * 2]]

\* Dictionary.map's updateFunction where the function maps a List to the map
\* it constructs: the record of the constructed channels
dictionaryTimes2All(dictionary) ==
  [keys |-> dictionary.keys,
   at |-> [name \in DOMAIN dictionary.at |->
             Ref(MapOf(dictionary.at[name].channel))]]

\* list.map((item) => fn(item)): holes stay holes
listMapAll(list) ==
  [length |-> list.length, at |-> [i \in DOMAIN list.at |-> listFn(list.at[i])]]

\* Object.fromEntries(Object.entries(dictionary).map(([key, item]) => [key, fn(item)]))
dictionaryMapAll(dictionary) ==
  [name \in DOMAIN dictionary |-> dictionaryFn(dictionary[name])]

\* util.ts sum: the loop adds every item of the array (a hole reads as
\* undefined and makes the total NaN)
RECURSIVE SumFrom(_, _)
SumFrom(numbers, i) ==
  IF i >= numbers.length THEN 0
  ELSE IF i \notin DOMAIN numbers.at \/ SumFrom(numbers, i + 1) = NaN THEN NaN
  ELSE numbers.at[i] + SumFrom(numbers, i + 1)
sum(numbers) == SumFrom(numbers, 0)

\* Object.keys, Object.values and Object.entries of an object: its own
\* properties in insertion order (no property of the model is an array index)
ObjectKeys(object) == Arr(object.keys)
ObjectValues(object) ==
  Arr([j \in 1..Len(object.keys) |-> object.at[object.keys[j]]])
ObjectEntries(object) ==
  Arr([j \in 1..Len(object.keys) |->
         <<object.keys[j], object.at[object.keys[j]]>>])

\* updateFunction(...incomingData)
updateFunction(c, incomingData) ==
  CASE c = "textTimes" -> repeat(incomingData[1], incomingData[2])
    [] c = "timesTwice" -> add(incomingData[1], incomingData[2])
    [] c = "textTimesTwice" -> repeat(incomingData[1], incomingData[2])
    [] c \in {"listMap", "listWatch", "listChecked"} ->
         listMapAll(incomingData[1])
    [] c \in {"fragment", "watcher", "fragmentCopy", "checkedWatch",
               "checkedCopy"} -> incomingData[1]
    [] c = "dictionaryMap" -> dictionaryMapAll(incomingData[1])
    [] c = "sum" -> sum(incomingData[1])
    [] c = "keys" -> ObjectKeys(incomingData[1])
    [] c = "values" -> ObjectValues(incomingData[1])
    [] c = "entries" -> ObjectEntries(incomingData[1])
    [] c = "total" ->
         LET n1 == sum(incomingData[1])
             n2 == sum(ObjectValues(incomingData[1 + 1]))
         IN IF n1 = NaN \/ n2 = NaN THEN NaN ELSE n1 + n2
    [] c = "dictionaryTimes2" -> dictionaryTimes2All(incomingData[1])
    [] c \in {"list1Times2", "list2Times2"} -> listTimes2All(incomingData[1])

\* The channels the updateFunction of c constructs, in order, and those its
\* updateIndexFunction constructs.  A List whose map is constructed already
\* gets no second one (each List of the model is mapped once).
Constructs(c, incomingData, made) ==
  IF c = "dictionaryTimes2"
  THEN SelectSeq([j \in 1..Len(incomingData[1].keys) |->
                    MapOf(incomingData[1].at[incomingData[1].keys[j]].channel)],
                 LAMBDA m : \A k \in 1..Len(made) : made[k] # m)
  ELSE <<>>
ConstructsAt(c, incomingData, made, index) ==
  IF c = "dictionaryTimes2"
  THEN SelectSeq(<<MapOf(incomingData[1].at[index.name].channel)>>,
                 LAMBDA m : \A k \in 1..Len(made) : made[k] # m)
  ELSE <<>>

\* An update index function that leaves the cache as it is.
updateIndexFunctionSkips(c, incomingData, cache, index) == cache

\* updateIndexFunction(incomingData, cachedData, index): the cache as the call
\* leaves it
updateIndexFunction(c, incomingData, cache, index) ==
  CASE c \in {"listMap", "listWatch", "listChecked"} ->
         LET i == KeyIndex(index)
         IN ArrSet(cache, i,
                   IF i \in DOMAIN incomingData[1].at
                   THEN listFn(incomingData[1].at[i]) ELSE NaN)
    [] c = "dictionaryMap" ->
         [name \in DOMAIN cache \cup {index.name} |->
            IF name = index.name
            THEN dictionaryFn(incomingData[1][index.name])
            ELSE cache[name]]
    [] c = "dictionaryTimes2" ->
         ObjSet(cache, index.name,
                Ref(MapOf(incomingData[1].at[index.name].channel)))
    [] c \in {"list1Times2", "list2Times2"} ->
         LET i == KeyIndex(index)
         IN ArrSet(cache, i,
                   IF i \in DOMAIN incomingData[1].at
                   THEN incomingData[1].at[i] * 2 ELSE NaN)

(***************************************************************************)
(* The runtime.  A heap h holds the fields of all channels while one       *)
(* operation runs, and the log of the calls made so far:                   *)
(*   "markDirty" c        markDirty of c, with the region it was given     *)
(*   "get" c by           the data getter of c, called by channel `by`     *)
(*                        ("" for the caller of the operation)             *)
(*   "compute" c          updateFunction of c                              *)
(*   "computeAt" c        updateIndexFunction of c, region = the index     *)
(***************************************************************************)
Event(e, c, by, region) == [e |-> e, c |-> c, by |-> by, region |-> region]
Logged(h, e, c, by, region) ==
  [h EXCEPT !.log = Append(@, Event(e, c, by, region))]

\* Whether the updateFunction of c raises on this incoming data, and whether
\* its updateIndexFunction raises at this index
updateFunctionThrows(c, incomingData) ==
  CASE c = "watcher" -> incomingData[1] = <<>>
    [] c = "listChecked" ->
         \E i \in DOMAIN incomingData[1].at : incomingData[1].at[i] = 0
    [] OTHER -> FALSE
updateIndexFunctionThrows(c, incomingData, index) ==
  /\ c = "listChecked"
  /\ KeyIndex(index) \in DOMAIN incomingData[1].at
  /\ incomingData[1].at[KeyIndex(index)] = 0

\* An exception leaves a function: nothing after the throwing call runs
Thrown(h) == h.thrown # ""
Throw(h, error) == [h EXCEPT !.thrown = error]

\* The loop over this.dirty.indices in the data getter
RECURSIVE UpdateEach(_, _, _, _, _)
UpdateEach(h, c, incomingData, keys, j) ==
  IF j > Len(keys) THEN h
  ELSE LET h1 == Logged(h, "computeAt", c, c, indices(<<keys[j]>>))
       IN IF updateIndexFunctionThrows(c, incomingData, keys[j])
          THEN Throw(h1, "Error")
          ELSE UpdateEach(
                 [h1 EXCEPT !.cachedData[c] =
                    updateIndexFunction(c, incomingData, @, keys[j]),
                            !.constructed =
                    @ \o ConstructsAt(c, incomingData, @, keys[j])],
                 c, incomingData, keys, j + 1)

RECURSIVE getData(_, _, _)

\* incomingChannels.map((incomingChannel) => incomingChannel.data)
RECURSIVE ReadIncoming(_, _, _, _)
ReadIncoming(h, c, i, incomingData) ==
  IF i > Len(incomingChannels(c)) THEN [h |-> h, val |-> incomingData]
  ELSE LET r == getData(h, incomingChannels(c)[i], c)
       IN IF Thrown(r.h) THEN r
          ELSE ReadIncoming(r.h, c, i + 1, Append(incomingData, r.val))

\* A getter that empties the dirty set whether or not the update raised.
ClearedAlways(h, c) == [h EXCEPT !.dirty[c] = indexNone]

\* this.dirty = indexNone, the statement after the update: an exception
\* raised by the update skips it
Cleared(h, c) == IF Thrown(h) THEN h ELSE [h EXCEPT !.dirty[c] = indexNone]

\* The recalculation of a dirty automatic channel, after this.dirty was found
\* not empty
Recalculate(h, c) ==
  LET r == ReadIncoming(h, c, 1, <<>>)
      h1 == r.h
      h2 == IF h1.dirty[c].indexType = "Indices" /\ hasUpdateIndexFunction(c)
            THEN UpdateEach(h1, c, r.val, h1.dirty[c].indices, 1)
            ELSE IF updateFunctionThrows(c, r.val)
                 THEN Throw(Logged(h1, "compute", c, c, indexAll), "Error")
                 ELSE [Logged(h1, "compute", c, c, indexAll)
                         EXCEPT !.cachedData[c] = updateFunction(c, r.val),
                                !.constructed = @ \o Constructs(c, r.val, @)]
  IN IF Thrown(h1) THEN h1 ELSE Cleared(h2, c)

\* get data() of DataChannel and of AutomaticChannel, called by `by`: the heap
\* it leaves and the value it returns
getData(h, c, by) ==
  LET h0 == Logged(h, "get", c, by, indexNone)
  IN IF c \in DataChannels THEN [h |-> h0, val |-> h0.data[c]]
     ELSE IF indexEmpty(h0.dirty[c]) THEN [h |-> h0, val |-> h0.cachedData[c]]
     ELSE LET h1 == Recalculate(h0, c)
          IN [h |-> h1, val |-> h1.cachedData[c]]

\* A markDirty that marks the channel and does not go on to its
\* connectedChannels.
markDirtyLocal(h, c, region) ==
  Logged([h EXCEPT !.dirty[c] = mergeIndexSpecifiers(@, region)],
         "markDirty", c, "", region)

\* Every data channel has the edges of list1 as its connectedChannels.
EdgesShared(h, u) ==
  connectedChannels[u] \o
    (IF u \in DataChannels THEN ConnectedBy(h.constructed, "list1") ELSE <<>>)

\* connectedChannels of u while an operation runs: the edges of the channels
\* constructed with the graph, then those of the channels constructed since
Edges(h, u) == connectedChannels[u] \o ConnectedBy(h.constructed, u)

RECURSIVE markDirty(_, _, _)

\* A loop over this.connectedChannels from the last edge to the first.
RECURSIVE PropagateReversed(_, _, _, _)
PropagateReversed(h, c, region, i) ==
  IF i > Len(Edges(h, c)) \/ Thrown(h) THEN h
  ELSE LET edge == Edges(h, c)[Len(Edges(h, c)) - i + 1]
       IN PropagateReversed(
            markDirty(h, edge.channel, Connector(edge.connector, region)),
            c, region, i + 1)

\* connector(i, ...) and cachedDataModifier(this.cachedData) in the loop of
\* Channel.markDirty on channel c, for its i-th edge: the log records the
\* position the connector is given, the input position it was registered
\* for, and whose cachedData the modifier is given.  No connector of the sources supplies a modifier,
\* so the cache stays as it is.  The loops of the data channels make no such
\* call.
Modified(h, c, i, edge, region) ==
  IF c \in DataChannels THEN h
  ELSE [h EXCEPT !.log =
          Append(@, [e |-> "modify", c |-> c, by |-> c, region |-> region,
                     to |-> edge.channel, i |-> i - 1, input |-> edge.input])]

\* The loop of markDirty over this.connectedChannels, from edge i on
RECURSIVE Propagate(_, _, _, _)
Propagate(h, c, region, i) ==
  IF i > Len(Edges(h, c)) \/ Thrown(h) THEN h
  ELSE LET edge == Edges(h, c)[i]
           marked == Connector(edge.connector, region)
       IN Propagate(
            markDirty(Modified(h, c, i, edge, marked), edge.channel,
                      marked),
            c, region, i + 1)

\* if (this.eager) { this.data }: the log records the forced read with the
\* automatic channels whose dirty set is empty when it starts
Forced(h, c) ==
  [h EXCEPT !.log =
     Append(@, [e |-> "force", c |-> c, by |-> c, region |-> indexNone,
                clean |-> {d \in DOMAIN h.dirty : indexEmpty(h.dirty[d])}])]

\* A markDirty that reads the data of an eager channel before it goes on to
\* the connectedChannels.
markDirtyReadsFirst(h, c, region) ==
  LET h1 == Logged([h EXCEPT !.dirty[c] = mergeIndexSpecifiers(@, region)],
                   "markDirty", c, "", region)
      h2 == IF eager(c) THEN getData(Forced(h1, c), c, c).h ELSE h1
  IN Propagate(h2, c, region, 1)

\* Channel.markDirty on automatic channel c
markDirty(h, c, region) ==
  LET h1 == Logged([h EXCEPT !.dirty[c] = mergeIndexSpecifiers(@, region)],
                   "markDirty", c, "", region)
      h2 == Propagate(h1, c, region, 1)
  IN IF eager(c) /\ ~Thrown(h2) THEN getData(Forced(h2, c), c, c).h ELSE h2

\* A data channel that notifies no connected channel.
NotifyNothing(h, s, region) == h

\* The loop of a data channel over its connectedChannels after a mutation
\* that emits `region`
Notify(h, s, region) == Propagate(h, s, region, 1)

(***************************************************************************)
(* The operations.                                                         *)
(***************************************************************************)
Heap ==
  [data |-> data, cachedData |-> cachedData, dirty |-> dirty, log |-> <<>>,
   constructed |-> constructed, thrown |-> ""]

\* The channels whose data getter ran in a log
GotIn(events) == {events[j].c : j \in {k \in 1..Len(events) : events[k].e = "get"}}

\* The automatic channels a data channel reaches
RECURSIVE DependsOn(_, _)
DependsOn(c, s) ==
  \E i \in 1..Len(incomingChannels(c)) :
     \/ incomingChannels(c)[i] = s
     \/ /\ incomingChannels(c)[i] \in Automatic
        /\ DependsOn(incomingChannels(c)[i], s)
Downstream == [s \in DataChannels |-> {c \in Automatic : DependsOn(c, s)}]

\* The automatic channels whose reads are compared with the mutations since
\* their last read
Tracked ==
  {"textTimes", "timesTwice", "textTimesTwice", "listMap", "dictionaryMap"}

Undefined == [undefined |-> TRUE]

\* What the caller of an operation receives when an exception leaves it
Raised(error) == [raised |-> error]

\* The record of a mutation of data channel s: its name, the region it emitted,
\* the index it was given and the length of the list before it
Mutation(name, s, region, index, length) ==
  [name |-> name, c |-> s, region |-> region, index |-> index,
   length |-> length, pend |-> <<>>, wasRead |-> FALSE,
   wasDirty |-> indexNone, prev |-> Undefined]

\* The record of a read of channel c: what was pending on c, whether it had
\* been read, its dirty set and its cache before the read
Reading(c) ==
  [name |-> "read", c |-> c, region |-> indexNone, index |-> NoKey,
   length |-> 0, pend |-> pending[c], wasRead |-> everRead[c],
   wasDirty |-> dirty[c], prev |-> cachedData[c]]

\* Whether the getter of c ran in the operation and c has nothing dirty now
Settled(h, c) ==
  /\ c \in GotIn(h.log)
  /\ \/ h.dirty[c] = indexNone
     \/ h.dirty[c] = indices(<<>>)

\* The state an operation leaves: the heap, the record of the operation, and
\* the value returned
Commit(h, o, r) ==
  /\ data' = h.data
  /\ cachedData' = h.cachedData
  /\ dirty' = h.dirty
  /\ log' = h.log
  /\ op' = o
  /\ ret' = IF Thrown(h) THEN Raised(h.thrown) ELSE r
  /\ constructed' = h.constructed
  /\ pending' =
       [c \in Automatic |->
          IF Settled(h, c) THEN <<>>
          ELSE IF o.c \in DataChannels /\ c \in Downstream[o.c] \cap Tracked
               THEN Append(pending[c],
                           [name |-> o.name, region |-> o.region,
                            index |-> o.index, length |-> o.length])
               ELSE pending[c]]
  /\ everRead' = [c \in Automatic |->
                    everRead[c] \/ Settled(h, c)]

CanMutate(s) == \A c \in Downstream[s] : Len(pending[c]) < MaxPending

\* channel.data = newData (DataChannel's setter)
SetData(s, newData) ==
  /\ CanMutate(s)
  /\ Commit(Notify([Heap EXCEPT !.data[s] = newData], s, indexAll),
            Mutation("write", s, indexAll, NoKey, 0), Undefined)

\* A constructor that accepts an empty list of incoming channels.
ConstructUnchecked(h, c) == [h EXCEPT !.constructed = Append(@, c)]

\* The constructor of AutomaticChannel for the channel c: it refuses an empty
\* list of incoming channels, and otherwise pushes its edges
\* A constructor that reads the data of an eager channel as soon as it is
\* connected.
ConstructComputes(h, c) ==
  IF Len(incomingChannels(c)) = 0
  THEN Throw(h, "NoIncomingChannelsError")
  ELSE IF eager(c)
       THEN getData([h EXCEPT !.constructed = Append(@, c)], c, c).h
       ELSE [h EXCEPT !.constructed = Append(@, c)]

Construct(h, c) ==
  IF Len(incomingChannels(c)) = 0
  THEN Throw(h, "NoIncomingChannelsError")
  ELSE [h EXCEPT !.constructed = Append(@, c)]

\* Whether the channel c exists
Exists(c) ==
  c \notin PoolChannels \/ \E k \in 1..Len(constructed) : constructed[k] = c

\* new AutomaticChannel(...) for a channel that is not constructed yet
New(c) ==
  /\ ~Exists(c)
  /\ \A j \in 1..Len(incomingChannels(c)) : Exists(incomingChannels(c)[j])
  /\ \E h \in {Construct(Heap, c)} :
       Commit(h, Mutation("new", c, indexNone, NoKey, 0), Ref(c))

\* channel.data, read by the caller, for a channel that exists
Read(c) ==
  /\ Exists(c)
  /\ \E r \in {getData(Heap, c, "")} : Commit(r.h, Reading(c), r.val)

\* unravelData(array) of an array of channels: object.map(unravelData) reads
\* the data of each channel in turn
RECURSIVE UnravelEach(_, _, _, _)
UnravelEach(h, channels, i, results) ==
  IF i > Len(channels) \/ Thrown(h) THEN [h |-> h, val |-> Arr(results)]
  ELSE LET r == getData(h, channels[i], "")
       IN UnravelEach(r.h, channels, i + 1, Append(results, r.val))

\* The record of unravelData(channels): the record of a read of the first
\* channel, and for each channel its dirty set and its cache before the call
Unravelling(channels) ==
  [Reading(channels[1]) EXCEPT !.name = "unravel"] @@
  [each |-> [j \in 1..Len(channels) |->
               [c |-> channels[j], wasDirty |-> dirty[channels[j]],
                prev |-> cachedData[channels[j]]]]]

Unravel(channels) ==
  \E r \in {UnravelEach(Heap, channels, 1, <<>>)} :
     Commit(r.h, Unravelling(channels), r.val)

\* unravelData(c.data) for a channel c whose data is a record of channels:
\* the getter of c, then recordMap(object, unravelData) reads the data of each
\* channel in the order of the record's keys
RECURSIVE UnravelValues(_, _, _, _)
UnravelValues(h, object, j, results) ==
  IF j > Len(object.keys) \/ Thrown(h)
  THEN [h |-> h, val |-> Obj(object.keys, results)]
  ELSE LET r == getData(h, object.at[object.keys[j]].channel, "")
       IN UnravelValues(r.h, object, j + 1, Append(results, r.val))

UnravelRecord(c) ==
  \E r \in {getData(Heap, c, "")} :
     \E u \in {UnravelValues(r.h, r.val, 1, <<>>)} :
        Commit(u.h,
               [Reading(c) EXCEPT !.name = "unravel"] @@
               [each |-> [j \in 1..Len(r.val.keys) |->
                            LET m == r.val.at[r.val.keys[j]].channel
                            IN [c |-> m, wasDirty |-> dirty[m],
                                prev |-> cachedData[m]]]],
               u.val)

\* What a value is at run time, as the tests of unravelData see it: an
\* instance of Channel, an array, another object, or a scalar
Scalar == [is |-> "Scalar"]
ChannelInstance == [is |-> "Channel"]
ArrayOf(type) == [is |-> "Array", of |-> type]
RecordOf(type) == [is |-> "Record", of |-> type]

\* What the data of channel c is: a record of Lists for the Dictionary of
\* Lists and its map, an array of numbers for the Lists
DataType(c) ==
  IF c \in {"listDictionary", "dictionaryTimes2"} THEN RecordOf(ChannelInstance)
  ELSE ArrayOf(Scalar)

\* unravelData(object): the data of a channel as the getter returns it, each
\* item of an array and each value of another object unravelled, anything
\* else as it is; with the value goes what it is at run time
RECURSIVE unravelData(_, _, _)
RECURSIVE UnravelItems(_, _, _, _, _)
UnravelItems(h, items, type, j, results) ==
  IF j > Len(items) \/ Thrown(h) THEN [h |-> h, vals |-> results, type |-> type]
  ELSE LET r == unravelData(h, items[j], type)
       IN UnravelItems(r.h, items, type, j + 1, Append(results, r))

unravelData(h, object, type) ==
  IF type.is = "Channel"
  THEN LET r == getData(h, object.channel, "")
       IN [h |-> r.h, val |-> r.val, type |-> DataType(object.channel)]
  ELSE IF type.is = "Array"
  THEN LET u == UnravelItems(
                  h, [j \in 1..object.length |-> object.at[j - 1]],
                  type.of, 1, <<>>)
       IN [h |-> u.h,
           val |-> Arr([j \in 1..Len(u.vals) |-> u.vals[j].val]),
           type |-> ArrayOf(IF u.vals = <<>> THEN Scalar ELSE u.vals[1].type)]
  ELSE IF type.is = "Record"
  THEN LET u == UnravelItems(
                  h, [j \in 1..Len(object.keys) |-> object.at[object.keys[j]]],
                  type.of, 1, <<>>)
       IN [h |-> u.h,
           val |-> Obj(SubSeq(object.keys, 1, Len(u.vals)),
                       [j \in 1..Len(u.vals) |-> u.vals[j].val]),
           type |-> RecordOf(IF u.vals = <<>> THEN Scalar ELSE u.vals[1].type)]
  ELSE [h |-> h, val |-> object, type |-> type]

\* The channel instances held in a value, at any depth
RECURSIVE ChannelsIn(_, _)
ChannelsIn(object, type) ==
  IF type.is = "Channel" THEN {object.channel}
  ELSE IF type.is = "Array"
  THEN UNION {ChannelsIn(object.at[i], type.of) : i \in DOMAIN object.at}
  ELSE IF type.is = "Record"
  THEN UNION {ChannelsIn(object.at[n], type.of) : n \in DOMAIN object.at}
  ELSE {}

\* unravelData(c), unravelData(c.data) and unravelData([c]) for channel c:
\* the operation records what it was given and returns the value with the
\* channel instances left in it
UnravelData(c, given) ==
  \E arg \in {IF given = "channel" THEN [h |-> Heap, val |-> Ref(c)]
              ELSE IF given = "array" THEN [h |-> Heap, val |-> Arr(<<Ref(c)>>)]
              ELSE getData(Heap, c, "")} :
     \E type \in {IF given = "channel" THEN ChannelInstance
                  ELSE IF given = "array" THEN ArrayOf(ChannelInstance)
                  ELSE DataType(c)} :
        \E r \in {unravelData(arg.h, arg.val, type)} :
           Commit(r.h,
                  Mutation("unravelData", c, indexNone, NoKey, 0) @@
                  [given |-> given, held |-> ChannelsIn(arg.val, type)],
                  [val |-> r.val, left |-> ChannelsIn(r.val, r.type)])

\* list.push(newData)
Push(newData) ==
  /\ CanMutate("list")
  /\ data["list"].length < MaxLen
  /\ LET array == ArrPush(data["list"], newData)
         region == indices(<<NumKey(array.length - 1)>>)
     IN Commit(Notify([Heap EXCEPT !.data["list"] = array], "list", region),
               Mutation("push", "list", region, NoKey, data["list"].length),
               Undefined)

\* list.insert(index, newData), 0 <= index <= length
Insert(index, newData) ==
  /\ CanMutate("list")
  /\ data["list"].length < MaxLen
  /\ index \in 0..data["list"].length
  /\ LET array == ArrInsert(data["list"], index, newData)
         region == indices(range(index, array.length))
     IN Commit(Notify([Heap EXCEPT !.data["list"] = array], "list", region),
               Mutation("insert", "list", region, NumKey(index),
                        data["list"].length),
               Undefined)

\* list.setItem(index, subData), 0 <= index < length
SetItem(index, subData) ==
  /\ CanMutate("list")
  /\ index \in 0..(data["list"].length - 1)
  /\ LET array == ArrSet(data["list"], index, subData)
         region == indices(<<NumKey(index)>>)
     IN Commit(Notify([Heap EXCEPT !.data["list"] = array], "list", region),
               Mutation("setItem", "list", region, NumKey(index),
                        data["list"].length),
               Undefined)

\* dictionary.setItem(index, subData)
DictionarySetItem(index, subData) ==
  /\ CanMutate("dictionary")
  /\ LET record == [name \in DOMAIN data["dictionary"] \cup {index.name} |->
                      IF name = index.name THEN subData
                      ELSE data["dictionary"][name]]
         region == indices(<<index>>)
     IN Commit(Notify([Heap EXCEPT !.data["dictionary"] = record],
                      "dictionary", region),
               Mutation("setItem", "dictionary", region, index, 0), Undefined)

\* push, insert (0 <= index <= length) and setItem (0 <= index < length) on
\* the List s, and setItem on the Dictionary `record`
ListPush(s, newData) ==
  /\ CanMutate(s)
  /\ data[s].length < MaxLen
  /\ \E array \in {ArrPush(data[s], newData)} :
       \E region \in {indices(<<NumKey(array.length - 1)>>)} :
          Commit(Notify([Heap EXCEPT !.data[s] = array], s, region),
                 Mutation("push", s, region, NoKey, data[s].length),
                 Undefined)

ListInsert(s, index, newData) ==
  /\ CanMutate(s)
  /\ data[s].length < MaxLen
  /\ index \in 0..data[s].length
  /\ \E array \in {ArrInsert(data[s], index, newData)} :
       \E region \in {indices(range(index, array.length))} :
          Commit(Notify([Heap EXCEPT !.data[s] = array], s, region),
                 Mutation("insert", s, region, NumKey(index), data[s].length),
                 Undefined)

ListSetItem(s, index, subData) ==
  /\ CanMutate(s)
  /\ index \in 0..(data[s].length - 1)
  /\ \E array \in {ArrSet(data[s], index, subData)} :
       \E region \in {indices(<<NumKey(index)>>)} :
          Commit(Notify([Heap EXCEPT !.data[s] = array], s, region),
                 Mutation("setItem", s, region, NumKey(index), data[s].length),
                 Undefined)

\* list.insert(index, newData) for any index >= 0: splice clamps the index to
\* the length, then range(index, length) is evaluated before any markDirty
ListInsertAny(s, index, newData) ==
  /\ CanMutate(s)
  /\ data[s].length < MaxLen
  /\ \E array \in {ArrInsert(data[s], index, newData)} :
       IF rangeThrows(index, array.length)
       THEN Commit(Throw([Heap EXCEPT !.data[s] = array], "RangeError"),
                   Mutation("insert", s, indexNone, NumKey(index),
                            data[s].length),
                   Undefined)
       ELSE \E region \in {indices(range(index, array.length))} :
               Commit(Notify([Heap EXCEPT !.data[s] = array], s, region),
                      Mutation("insert", s, region, NumKey(index),
                               data[s].length),
                      Undefined)

RecordSetItem(index, subData) ==
  /\ CanMutate("record")
  /\ \E object \in {ObjSet(data["record"], index.name, subData)} :
       \E region \in {indices(<<index>>)} :
          Commit(Notify([Heap EXCEPT !.data["record"] = object], "record", region),
                 Mutation("setItem", "record", region, index, 0), Undefined)

(***************************************************************************)
(* The inputs of the operations, and the state after construction.         *)
(***************************************************************************)
Cat == <<"c", "a", "t">>
Dog == <<"d", "o", "g">>
Texts == {Cat, Dog}

\* The lists written to the List source as a whole
Lists == {<<>>, <<2>>, <<1, 2, 1>>}

DictionaryKeys == {StrKey("a"), StrKey("b"), StrKey("toString"), NumKey(1)}
Dictionaries == {<<>>, [a |-> 1, b |-> 2]}

Init ==
  /\ data = [times |-> 1, text |-> Cat, list |-> Arr(<<1, 2>>),
             dictionary |-> [a |-> 1, b |-> 2],
             numbers |-> Arr(<<1>>), record |-> Obj(<<>>, <<>>),
             list1 |-> Arr(<<1, 2>>), list2 |-> Arr(<<4>>),
             listDictionary |-> Obj(<<"a", "b">>, <<Ref("list1"), Ref("list2")>>)]
  /\ cachedData = [c \in Automatic |-> Undefined]
  /\ dirty = [c \in Automatic |-> indexAll]
  /\ op = Mutation("new", "", indexNone, NoKey, 0)
  /\ log = <<>>
  /\ ret = Undefined
  /\ pending = [c \in Automatic |-> <<>>]
  /\ everRead = [c \in Automatic |-> FALSE]
  /\ constructed = <<>>

\* The graph of String.repeat and Number.add channels over times and text
NextChannel ==
  \/ \E v \in 0..MaxTimes : SetData("times", v)
  \/ \E v \in Texts : SetData("text", v)
  \/ \E c \in {"textTimes", "timesTwice", "textTimesTwice"} : Read(c)

SpecChannel == Init /\ [][NextChannel]_vars

\* A List and its map
NextList ==
  \/ \E l \in Lists : SetData("list", Arr(l))
  \/ \E v \in ListVals : Push(v)
  \/ \E i \in 0..MaxLen, v \in ListVals : Insert(i, v)
  \/ \E i \in 0..MaxLen, v \in ListVals : SetItem(i, v)
  \/ Read("listMap")

SpecList == Init /\ [][NextList]_vars

\* A Dictionary and its map
NextDictionary ==
  \/ \E d \in Dictionaries : SetData("dictionary", d)
  \/ \E k \in DictionaryKeys, v \in DictVals : DictionarySetItem(k, v)
  \/ Read("dictionaryMap")

SpecDictionary == Init /\ [][NextDictionary]_vars

\* The whole-value derivations of a List and a Dictionary
RecordKeys == {StrKey("a"), StrKey("b")}
NextDerived ==
  \/ ListPush("numbers", 1)
  \/ ListInsert("numbers", 1, 1)
  \/ ListSetItem("numbers", 0, 2)
  \/ \E k \in RecordKeys : RecordSetItem(k, 1)
  \/ \E c \in {"sum", "total"} : Read(c)
  \/ Unravel(<<"keys", "values", "entries">>)

SpecDerived == Init /\ [][NextDerived]_vars

\* Two Lists held in a Dictionary, and the map of the Dictionary that maps
\* each List
NextNested ==
  \/ \E i \in 0..MaxLen : ListSetItem("list1", i, 9)
  \/ ListSetItem("list2", 0, 9)
  \/ ListPush("list1", 3)
  \/ Read("dictionaryTimes2")
  \/ UnravelRecord("dictionaryTimes2")

SpecNested == Init /\ [][NextNested]_vars

\* The Dictionary of Lists, its map and the Lists, given to unravelData as
\* channels, as the data of a channel and inside an array
NextUnravel ==
  \/ \E i \in 0..MaxLen : ListSetItem("list1", i, 9)
  \/ ListPush("list2", 3)
  \/ \E c \in {"list1", "listDictionary", "dictionaryTimes2"},
        given \in {"channel", "data", "array"} : UnravelData(c, given)

SpecUnravel == Init /\ [][NextUnravel]_vars

\* The graph over times and text with a Fragment constructed on its last
\* channel while the program runs, and a construction without inputs
NextEager ==
  \/ \E c \in {"fragment", "noInputs"} : New(c)
  \/ \E v \in 0..MaxTimes : SetData("times", v)
  \/ \E v \in Texts : SetData("text", v)
  \/ \E c \in {"textTimes", "timesTwice", "textTimesTwice", "fragment"} :
        Read(c)

SpecEager == Init /\ [][NextEager]_vars

\* The graph over times and text with a Fragment on its last channel and a
\* Fragment on that Fragment: an eager channel with an outgoing edge
NextEagerChain ==
  \/ \E c \in {"fragment", "fragmentCopy"} : New(c)
  \/ \E v \in 0..MaxTimes : SetData("times", v)
  \/ \E v \in Texts : SetData("text", v)
  \/ \E c \in {"textTimesTwice", "fragment", "fragmentCopy"} : Read(c)

SpecEagerChain == Init /\ [][NextEagerChain]_vars

\* A List with its map and an eager map of it constructed while the program
\* runs; insert is called with any index.  The map is not read, so a run
\* makes at most MaxPending mutations.
NextWatch ==
  \/ New("listWatch")
  \/ \E l \in Lists : SetData("list", Arr(l))
  \/ ListPush("list", 1)
  \/ \E i \in 0..(MaxLen + 1) : ListInsertAny("list", i, 1)
  \/ \E i \in 0..MaxLen : ListSetItem("list", i, 2)
  \/ Read("listWatch")

SpecWatch == Init /\ [][NextWatch]_vars

\* A List, its map and an eager map of it constructed while the program runs,
\* both maps with an updateIndexFunction, both read by the caller
NextFirstRead ==
  \/ New("listWatch")
  \/ SetData("list", Arr(<<2>>))
  \/ ListPush("list", 1)
  \/ \E i \in 0..(MaxLen + 1) : ListInsertAny("list", i, 1)
  \/ ListSetItem("list", 0, 2)
  \/ \E c \in {"listMap", "listWatch"} : Read(c)

SpecFirstRead == Init /\ [][NextFirstRead]_vars

\* A List and a map of it whose function raises on the item 0.  The plain map
\* of the List is not read, so a run makes at most MaxPending mutations.
CheckedLists == {<<2>>, <<1, 0>>}
NextFailure ==
  \/ New("listChecked")
  \/ \E l \in CheckedLists : SetData("list", Arr(l))
  \/ \E i \in 0..MaxLen, v \in {0, 2} : ListSetItem("list", i, v)
  \/ ListPush("list", 0)
  \/ Read("listChecked")

SpecFailure == Init /\ [][NextFailure]_vars

\* The map whose function raises on the item 0, with an eager channel and a
\* lazy channel constructed on it in any order.  The plain map of the List is
\* not read, so a run makes at most MaxPending mutations.
NextFailureChain ==
  \/ \E c \in {"listChecked", "checkedWatch", "checkedCopy"} : New(c)
  \/ \E l \in CheckedLists : SetData("list", Arr(l))
  \/ \E i \in 0..1, v \in {0, 2} : ListSetItem("list", i, v)
  \/ \E c \in {"listChecked", "checkedCopy"} : Read(c)

SpecFailureChain == Init /\ [][NextFailureChain]_vars

\* The graph over times and text with an eager channel over textTimes whose
\* function raises on the empty text
NextEagerFailure ==
  \/ New("watcher")
  \/ \E v \in 0..MaxTimes : SetData("times", v)
  \/ \E v \in Texts : SetData("text", v)
  \/ \E c \in {"textTimes", "timesTwice", "textTimesTwice", "watcher"} :
        Read(c)

SpecEagerFailure == Init /\ [][NextEagerFailure]_vars

(***************************************************************************)
(* The index specifier functions on their own: two specifiers are drawn    *)
(* when the program starts, and each call is applied to them.  The keys    *)
(* are two numbers, the string of the digits of one of them, and a string  *)
(* that names a property of Object.prototype.                              *)
(***************************************************************************)
IndexKeys == {NumKey(1), NumKey(2), StrKey("1"), StrKey("toString")}
KeyLists == UNION {[1..n -> IndexKeys] : n \in 0..MaxKeys}
Specifiers == {indexAll, indexNone} \cup {indices(keys) : keys \in KeyLists}

\* The specifiers given as a third argument
Thirds ==
  {indexAll, indexNone, indices(<<>>)} \cup {indices(<<k>>) : k \in IndexKeys}

InitIndex ==
  /\ op \in {[name |-> "input", a |-> a, b |-> b] : a, b \in Specifiers}
  /\ ret = Undefined
  /\ data = <<>>
  /\ cachedData = <<>>
  /\ dirty = <<>>
  /\ log = <<>>
  /\ pending = <<>>
  /\ everRead = <<>>
  /\ constructed = <<>>

\* What a call of the index specifier functions leaves
Called(name, result) ==
  /\ op' = [op EXCEPT !.name = name]
  /\ ret' = result
  /\ UNCHANGED <<data, cachedData, dirty, log, pending, everRead, constructed>>

\* mergeIndexSpecifiers(a, b) and mergeIndexSpecifiers(b, a)
Merge ==
  \E result \in {[ab |-> mergeIndexSpecifiers(op.a, op.b),
                   ba |-> mergeIndexSpecifiers(op.b, op.a)]} :
     Called("merge", result)

\* mergeIndexSpecifiers over three specifiers, grouped to the left and to the
\* right
MergeThree(c) ==
  \E result \in
       {[c |-> c,
         left |-> mergeIndexSpecifiers(mergeIndexSpecifiers(op.a, op.b), c),
         right |-> mergeIndexSpecifiers(op.a, mergeIndexSpecifiers(op.b, c))]} :
     Called("mergeThree", result)

\* indexHas and indexEmpty of a, of b and of their merge, and
\* normalizeIndexSpecifier(a)
Has(k) ==
  \E result \in
       {[k |-> k,
         a |-> indexHas(op.a, k),
         b |-> indexHas(op.b, k),
         merged |-> indexHas(mergeIndexSpecifiers(op.a, op.b), k),
         empty |-> indexEmpty(op.a),
         normalized |-> normalizeIndexSpecifier(op.a)]} :
     Called("has", result)

NextIndex ==
  \/ Merge
  \/ \E c \in Thirds : MergeThree(c)
  \/ \E k \in IndexKeys : Has(k)

SpecIndex == InitIndex /\ [][NextIndex]_vars

(***************************************************************************)
(* What the last operation did, read off its log.                          *)
(***************************************************************************)
\* The calls of kind e on channel c, in order, and how many
CallsOf(e, c) == SelectSeq(log, LAMBDA ev : ev.e = e /\ ev.c = c)
Calls(e, c) == Len(CallsOf(e, c))

\* The keys updateIndexFunction of c was called with, in order
ComputeAtKeys(c) ==
  [j \in 1..Calls("computeAt", c) |-> CallsOf("computeAt", c)[j].region.indices[1]]

\* The data getters channel c called
GetsBy(c) == SelectSeq(log, LAMBDA ev : ev.e = "get" /\ ev.by = c)

KeysOf(keys) == {keys[j] : j \in 1..Len(keys)}
NoDuplicates(keys) == \A i, j \in 1..Len(keys) : keys[i] = keys[j] => i = j

\* The value of a channel when the whole graph is recomputed from the data
\* channels
RECURSIVE Recomputed(_)
Recomputed(c) ==
  IF c \in DataChannels THEN data[c]
  ELSE updateFunction(c, [i \in 1..Len(incomingChannels(c)) |->
                            Recomputed(incomingChannels(c)[i])])

ReadOf(c) == op.name = "read" /\ op.c = c

\* The mutations pending at the read are all among `names`
PendingAmong(names) ==
  /\ op.pend # <<>>
  /\ \A j \in 1..Len(op.pend) : op.pend[j].name \in names

(***************************************************************************)
(* The claims.                                                             *)
(***************************************************************************)

\* C1: after a write to a data channel, the next read of an automatic channel
\* over data channels (textTimes = repeat(text, times), timesTwice =
\* add(times, times)) returns its update function applied to the current data
\* of its inputs.
C1_ReadAfterWrite ==
  \A d \in {"textTimes", "timesTwice"} :
     (ReadOf(d) /\ PendingAmong({"write"})) =>
        ret = updateFunction(d, <<data[incomingChannels(d)[1]],
                                  data[incomingChannels(d)[2]]>>)

C1_Witness ==
  /\ ReadOf("timesTwice")
  /\ PendingAmong({"write"})
  /\ op.wasRead
  /\ op.prev = 2
  /\ ret = 4

\* C2: in the graph textTimesTwice = repeat(repeat(text, times), add(times,
\* times)) (times reaches textTimesTwice along two paths and is listed twice
\* as an input of timesTwice), after any interleaving of writes and reads, a
\* read of any automatic channel returns what recomputing the whole graph from
\* the current data gives, and leaves the channel with dirty = None.
C2_ReadIsRecomputed ==
  (op.name = "read") =>
     /\ ret = Recomputed(op.c)
     /\ dirty[op.c] = indexNone

C2_Witness ==
  /\ ReadOf("textTimesTwice")
  /\ op.wasRead
  /\ Len(op.pend) = 2
  /\ op.prev = Cat \o Cat
  /\ ret = repeat(Dog, 8)

\* C3: a mutation of the list (write, setItem, push, insert) calls no update
\* function, no update index function and no data getter: until the map is
\* read, the mutation only marks it dirty.
C3_MutationComputesNothing ==
  (op.name \in {"write", "setItem", "push", "insert"}) =>
     \A j \in 1..Len(log) : log[j].e = "markDirty"

C3_Witness ==
  /\ op.name = "setItem"
  /\ everRead["listMap"]
  /\ dirty["listMap"] # indexNone
  /\ cachedData["listMap"] # listMapAll(data["list"])
  /\ Calls("markDirty", "listMap") = 1

\* C4: a read of an automatic channel that was read before, with no mutation
\* of a data channel it depends on since, returns the value cached by the
\* previous read and calls nothing but the channel's own getter: no update
\* function, no update index function, no getter of an input.
C4_CleanReadIsCached ==
  (op.name = "read" /\ op.wasRead /\ op.pend = <<>>) =>
     /\ ret = op.prev
     /\ log = <<Event("get", op.c, "", indexNone)>>

C4_Witness ==
  /\ ReadOf("textTimesTwice")
  /\ op.wasRead
  /\ op.pend = <<>>
  /\ ret = repeat(Dog, 8)

\* C5, as stated: whenever the list was mutated by setItem only since the last
\* read of the map (or since its construction), the read calls the update
\* index function once per index set and never the update function.
C5_Original ==
  (ReadOf("listMap") /\ PendingAmong({"setItem"})) =>
     /\ Calls("compute", "listMap") = 0
     /\ NoDuplicates(ComputeAtKeys("listMap"))
     /\ KeysOf(ComputeAtKeys("listMap")) =
          {op.pend[j].index : j \in 1..Len(op.pend)}

\* C5, amended: the same when the map was read before the setItem calls (so
\* that its dirty set was None, not All, when they began).
C5_SetItemIsFineGrained ==
  (ReadOf("listMap") /\ PendingAmong({"setItem"}) /\ op.wasRead) =>
     /\ Calls("compute", "listMap") = 0
     /\ NoDuplicates(ComputeAtKeys("listMap"))
     /\ KeysOf(ComputeAtKeys("listMap")) =
          {op.pend[j].index : j \in 1..Len(op.pend)}

C5_Witness ==
  /\ ReadOf("listMap")
  /\ op.wasRead
  /\ Len(op.pend) = 2
  /\ PendingAmong({"setItem"})
  /\ op.pend[1].index # op.pend[2].index
  /\ Calls("computeAt", "listMap") = 2

\* C6: after any sequence of write, setItem, push and insert with indices
\* within the list, interleaved with reads, a read of the map returns the
\* list obtained by applying the function to every item of the list.
C6_MapAgreesWithFullMap ==
  ReadOf("listMap") => ret = listMapAll(data["list"])

C6_Witness ==
  /\ ReadOf("listMap")
  /\ op.wasRead
  /\ Len(op.pend) = 2
  /\ op.pend[1].name = "push"
  /\ op.pend[2].name = "insert"
  /\ op.pend[2].index = NumKey(0)
  /\ Calls("compute", "listMap") = 0
  /\ op.prev = Arr(<<9>>)
  /\ ret = Arr(<<8, 9, 8>>)

\* The positions i, i+1, ..., n as keys
Positions(i, n) == [j \in 1..(n - i + 1) |-> NumKey(i + j - 1)]

\* C7, as stated: when the last mutation before a read of the map is
\* insert(i, v) on a list of length n, the read calls the update index
\* function for exactly the positions i..n and never the update function.
C7_Original ==
  (ReadOf("listMap") /\ op.pend # <<>>
     /\ op.pend[Len(op.pend)].name = "insert") =>
     LET ins == op.pend[Len(op.pend)]
     IN /\ Calls("compute", "listMap") = 0
        /\ ComputeAtKeys("listMap") = Positions(KeyIndex(ins.index), ins.length)

\* C7, amended: when the map was read before and insert(i, v) on a list of
\* length n is the only mutation since that read, the next read calls the
\* update index function for exactly the positions i..n, n - i + 1 times, and
\* never the update function.
C7_InsertRecomputesTail ==
  (ReadOf("listMap") /\ op.wasRead /\ Len(op.pend) = 1
     /\ op.pend[1].name = "insert") =>
     LET ins == op.pend[1]
     IN /\ Calls("compute", "listMap") = 0
        /\ ComputeAtKeys("listMap") = Positions(KeyIndex(ins.index), ins.length)
        /\ Calls("computeAt", "listMap") = ins.length - KeyIndex(ins.index) + 1

C7_Witness ==
  /\ ReadOf("listMap")
  /\ op.wasRead
  /\ Len(op.pend) = 1
  /\ op.pend[1].name = "insert"
  /\ op.pend[1].index = NumKey(1)
  /\ op.pend[1].length = 2
  /\ Calls("computeAt", "listMap") = 2

\* C8: when the map was read and then only setItem, push and insert
\* mutations hit the list, the next read calls the update index function
\* exactly once for each index in the union of the index lists the mutations
\* emitted, and never the update function.
C8_UnionOfEmittedIndices ==
  (ReadOf("listMap") /\ op.wasRead
     /\ PendingAmong({"setItem", "push", "insert"})) =>
     /\ Calls("compute", "listMap") = 0
     /\ NoDuplicates(ComputeAtKeys("listMap"))
     /\ KeysOf(ComputeAtKeys("listMap")) =
          UNION {KeysOf(op.pend[j].region.indices) : j \in 1..Len(op.pend)}

C8_Witness ==
  /\ ReadOf("listMap")
  /\ op.wasRead
  /\ Len(op.pend) = 2
  /\ op.pend[1].name = "insert"
  /\ op.pend[2].name = "insert"
  /\ op.pend[1].region = indices(<<NumKey(0), NumKey(1)>>)
  /\ op.pend[2].region = indices(<<NumKey(1), NumKey(2)>>)
  /\ Calls("computeAt", "listMap") = 3

\* C9: push(v) on a list of length n marks the map with Indices([n]); when
\* the map was read before and the push is the only mutation since, the next
\* read calls the update index function once, at n, never the update
\* function, and returns the previous result with fn(v) appended.
C9_PushAppends ==
  /\ (op.name = "push") =>
        log = <<Event("markDirty", "listMap", "",
                      indices(<<NumKey(op.length)>>))>>
  /\ (ReadOf("listMap") /\ op.wasRead /\ Len(op.pend) = 1
        /\ op.pend[1].name = "push") =>
        LET n == op.pend[1].length
        IN /\ Calls("compute", "listMap") = 0
           /\ ComputeAtKeys("listMap") = <<NumKey(n)>>
           /\ ret = ArrPush(op.prev, listFn(data["list"].at[n]))

C9_Witness ==
  /\ ReadOf("listMap")
  /\ op.wasRead
  /\ Len(op.pend) = 1
  /\ op.pend[1].name = "push"
  /\ op.prev = Arr(<<9, 8>>)
  /\ ret = Arr(<<9, 8, 8>>)

\* C10: setItem(key, v) on the dictionary, when its map was read before and
\* nothing else is pending, marks the map with exactly Indices([key]); the
\* next read calls the update index function once, for that key, never the
\* update function, and returns the function applied to every value of the
\* dictionary.  Violated: mergeIndexSpecifiers tests `merged[index]` on a plain
\* object, which is truthy for a key named like a member of Object.prototype,
\* so two setItem calls between reads of which one is at "toString" leave the
\* map dirty at the other key only, and its cache keeps missing (or keeps a
\* stale) value at "toString" through every later per-index read.
C10_DictionarySetItem ==
  /\ (op.name = "setItem" /\ everRead["dictionaryMap"]
        /\ Len(pending["dictionaryMap"]) = 1) =>
        /\ dirty["dictionaryMap"] = indices(<<op.index>>)
        /\ log = <<Event("markDirty", "dictionaryMap", "", indices(<<op.index>>))>>
  /\ (ReadOf("dictionaryMap") /\ op.wasRead /\ Len(op.pend) = 1
        /\ op.pend[1].name = "setItem") =>
        /\ Calls("compute", "dictionaryMap") = 0
        /\ ComputeAtKeys("dictionaryMap") = <<op.pend[1].index>>
        /\ ret = dictionaryMapAll(data["dictionary"])

\* The edges of data channel s whose connector was missing from the
\* connector list of the channel they lead to
MissingConnectorEdges(s) ==
  {j \in 1..Len(connectedChannels[s]) :
     LET c == connectedChannels[s][j].channel
     IN \E i \in 1..Len(incomingChannels(c)) :
          incomingChannels(c)[i] = s /\ i > Len(connectorMap(c))}

\* How often a read that found the channel's dirty set `wasDirty` is to run
\* the update function
ComputesFor(wasDirty) == IF indexEmpty(wasDirty) THEN 0 ELSE 1

\* C11: an automatic channel whose connector for an input is missing (sum,
\* keys, values, entries: no connector list; total: a list shorter than its
\* inputs) is marked with All by every setItem, push and insert on that input,
\* whatever Indices region the mutation emitted; so the next read runs the
\* update function exactly once, and a read with nothing marked since runs it
\* zero times.
C11_MissingConnectorGetsAll ==
  /\ (op.name \in {"setItem", "push", "insert"}
        /\ op.c \in {"numbers", "record"}) =>
        /\ op.region.indexType = "Indices"
        /\ \A j \in MissingConnectorEdges(op.c) :
             LET c == connectedChannels[op.c][j].channel
             IN /\ dirty[c] = indexAll
                /\ \E k \in 1..Len(log) :
                     log[k] = Event("markDirty", c, "", indexAll)
  /\ (op.name = "read" /\ op.c \in {"sum", "total"}) =>
        /\ Calls("compute", op.c) = ComputesFor(op.wasDirty)
        /\ Calls("computeAt", op.c) = 0
        /\ dirty[op.c] = indexNone
  /\ (op.name = "unravel") =>
        \A j \in 1..Len(op.each) :
           /\ Calls("compute", op.each[j].c) = ComputesFor(op.each[j].wasDirty)
           /\ Calls("computeAt", op.each[j].c) = 0
           /\ dirty[op.each[j].c] = indexNone

C11_Witness ==
  /\ ReadOf("sum")
  /\ op.wasRead
  /\ op.wasDirty = indexAll
  /\ op.prev = 1
  /\ ret = 4
  /\ Calls("compute", "sum") = 1
  /\ data["record"].keys = <<"b", "a">>
  /\ cachedData["keys"] = Arr(<<"b">>)
  /\ dirty["keys"] = indexAll

\* C12: a mutation of a List held as a value of listDictionary marks only the
\* map constructed for that List (nothing when none is constructed yet): the
\* map of the dictionary stays clean, and on the next unravelling read it
\* runs neither its update function nor its update index function, the map
\* of the other List runs nothing, and the map of the mutated List runs its
\* update index function once for each changed index and never its update
\* function.
C12_InnerMutationStaysInner ==
  /\ everRead["dictionaryTimes2"] => dirty["dictionaryTimes2"] = indexNone
  /\ (op.c \in {"list1", "list2"}) =>
        log = IF \E k \in 1..Len(constructed) : constructed[k] = MapOf(op.c)
              THEN <<Event("markDirty", MapOf(op.c), "", op.region)>>
              ELSE <<>>
  /\ (op.name = "unravel" /\ op.c = "dictionaryTimes2" /\ op.wasRead) =>
        /\ Calls("compute", "dictionaryTimes2") = 0
        /\ Calls("computeAt", "dictionaryTimes2") = 0
        /\ \A j \in 1..Len(op.each) :
             LET m == op.each[j]
             IN IF m.wasDirty.indexType = "Indices"
                THEN /\ Calls("compute", m.c) = 0
                     /\ ComputeAtKeys(m.c) = m.wasDirty.indices
                ELSE /\ Calls("compute", m.c) = ComputesFor(m.wasDirty)
                     /\ Calls("computeAt", m.c) = 0

C12_Witness ==
  /\ op.name = "unravel"
  /\ op.c = "dictionaryTimes2"
  /\ op.wasRead
  /\ op.each[1].wasDirty = indices(<<NumKey(1)>>)
  /\ op.each[1].prev = Arr(<<2, 4>>)
  /\ op.each[2].wasDirty = indexNone
  /\ ret = Obj(<<"a", "b">>, <<Arr(<<2, 18>>), Arr(<<8>>)>>)
  /\ Len(SelectSeq(log, LAMBDA ev : ev.e \in {"compute", "computeAt"})) = 1

(***************************************************************************)
(* C13.  A write to a source synchronously triggers the compute of an      *)
(* eager channel downstream of it, on the new value: when times or text    *)
(* is written while the Fragment over textTimesTwice exists, the write     *)
(* runs the Fragment's update function, and when it returns the Fragment   *)
(* holds the text derived from the data just written and is not dirty.     *)
(***************************************************************************)
C13_EagerComputesOnWrite ==
  (op.name = "write" /\ Exists("fragment")) =>
     /\ Calls("compute", "fragment") >= 1
     /\ dirty["fragment"] = indexNone
     /\ cachedData["fragment"] =
          repeat(repeat(data["text"], data["times"]),
                 add(data["times"], data["times"]))

\* A write of times = 2 after which the Fragment holds the text six times
C13_Witness ==
  /\ op.name = "write" /\ op.c = "times"
  /\ Exists("fragment")
  /\ data["times"] = 2
  /\ Calls("compute", "fragment") >= 1
  /\ Len(cachedData["fragment"]) = 2 * 4 * Len(Cat)

(***************************************************************************)
(* C14.  Within one write, every forced read of an eager channel comes     *)
(* after the markDirty of every non-eager channel the written source       *)
(* reaches, so no forced read starts while such a channel has an empty     *)
(* dirty set and a cache from before the write.  The model violates it:    *)
(* markDirty forces the read of the Fragment as soon as the first edge of  *)
(* times has been followed, while timesTwice, reached by the second edge,  *)
(* is not marked yet.                                                      *)
(***************************************************************************)
MarkedBefore(d, p) ==
  \E q \in 1..(p - 1) : log[q].e = "markDirty" /\ log[q].c = d
ComputedBefore(d, p) ==
  \E q \in 1..(p - 1) : log[q].e \in {"compute", "computeAt"} /\ log[q].c = d

C14_ForcedReadAfterMarks ==
  (op.name = "write") =>
     \A p \in 1..Len(log) : log[p].e = "force" =>
        \A d \in Downstream[op.c] : (Exists(d) /\ ~eager(d)) =>
           /\ MarkedBefore(d, p)
           /\ ~(d \in log[p].clean /\ ~ComputedBefore(d, p))

(***************************************************************************)
(* C15.  An eager channel observes every mutation of its source, in order  *)
(* and without coalescing: each mutation of the List runs the update       *)
(* function or the update index function of its eager map before the       *)
(* mutation returns, and leaves that map equal to the map of the List as   *)
(* the mutation left it.  The model violates it: insert(length + 1, v)     *)
(* appends v and emits the empty region (see C20), so the forced read      *)
(* finds nothing dirty and computes nothing.                               *)
(***************************************************************************)
C15_EachMutationIsComputed ==
  (op.c = "list" /\ op.name \in {"write", "push", "insert", "setItem"}
     /\ Exists("listWatch")) =>
     /\ Calls("compute", "listWatch") + Calls("computeAt", "listWatch") >= 1
     /\ cachedData["listWatch"] = listMapAll(data["list"])

(***************************************************************************)
(* C20.  The region a mutation of a source delivers to each channel        *)
(* connected to it by an identity connector holds every key whose value    *)
(* the mutation changed: for each write, push, setItem and insert (with    *)
(* any index) of the List, every index at which the List differs before    *)
(* and after is in the region of a markDirty call on each of its maps.     *)
(* The model violates it: insert(length + 1, v) changes index `length`     *)
(* and delivers the empty region, and an insert further out changes the    *)
(* same index and raises before any markDirty is called.                   *)
(***************************************************************************)
Changed(before, after) ==
  {k \in 0..(before.length + after.length) :
     \/ (k \in DOMAIN before.at) # (k \in DOMAIN after.at)
     \/ /\ k \in DOMAIN before.at
        /\ k \in DOMAIN after.at
        /\ before.at[k] # after.at[k]}

Delivered(events, d, k) ==
  \E j \in 1..Len(events) :
     /\ events[j].e = "markDirty"
     /\ events[j].c = d
     /\ indexHas(events[j].region, NumKey(k))

C20_RegionCoversChanges ==
  [][(op'.c = "list" /\ op'.name \in {"write", "push", "insert", "setItem"}) =>
        \A k \in Changed(data["list"], data'["list"]) :
           \A d \in {"listMap", "listWatch"} :
              Exists(d) => Delivered(log', d, k)]_vars

(***************************************************************************)
(* C16.  Within one write, markDirty visits the graph in pre-order: the    *)
(* edges of a channel are followed in the order the downstream channels    *)
(* were constructed, and everything below one edge is marked before the    *)
(* next edge is followed.  The channels of the markDirty calls of a write, *)
(* in the order of the calls, are the pre-order listing of the graph below *)
(* the written source.                                                     *)
(***************************************************************************)
RECURSIVE PreOrderEdges(_, _)
PreOrder(u) == <<u>> \o PreOrderEdges(u, 1)
PreOrderEdges(u, i) ==
  IF i > Len(Edges(Heap, u)) THEN <<>>
  ELSE PreOrder(Edges(Heap, u)[i].channel) \o PreOrderEdges(u, i + 1)

Marks ==
  LET calls == SelectSeq(log, LAMBDA event : event.e = "markDirty")
  IN [j \in 1..Len(calls) |-> calls[j].c]

C16_MarkDirtyIsPreOrder ==
  (op.name = "write") => Marks = PreOrderEdges(op.c, 1)

\* A write of times once the Fragment is constructed: two paths reach
\* textTimesTwice and the Fragment below it, and timesTwice is reached twice
C16_Witness ==
  /\ op.name = "write" /\ op.c = "times"
  /\ Marks = <<"textTimes", "textTimesTwice", "fragment",
               "timesTwice", "textTimesTwice", "fragment",
               "timesTwice", "textTimesTwice", "fragment">>

(***************************************************************************)
(* C17.  Constructing an automatic channel with an empty list of incoming  *)
(* channels fails with NoIncomingChannelsError: the caller receives the    *)
(* error and no channel, the channel does not exist afterwards, and the    *)
(* connectedChannels of every channel are what they were.                  *)
(***************************************************************************)
C17_NoIncomingChannels ==
  [][(op'.name = "new" /\ op'.c \in PoolChannels
        /\ Len(incomingChannels(op'.c)) = 0) =>
        /\ ret' = Raised("NoIncomingChannelsError")
        /\ \A k \in 1..Len(constructed') : constructed'[k] # op'.c
        /\ constructed' = constructed
        /\ \A u \in DataChannels \cup Automatic :
              Edges(Heap, u)' = Edges(Heap, u)]_vars

\* The refused construction, made when the Fragment has pushed its edge
C17_Witness ==
  /\ op.name = "new" /\ op.c = "noInputs"
  /\ incomingChannels("noInputs") = <<>>
  /\ ret = Raised("NoIncomingChannelsError")
  /\ Edges(Heap, "textTimesTwice") =
       <<[channel |-> "fragment", connector |-> "all", input |-> 0]>>

(***************************************************************************)
(* C18.  When the update function or the update index function raises     *)
(* during a read, the reader receives the error and the dirty set of the   *)
(* channel is what it was before the read, also when update index calls    *)
(* for earlier keys had succeeded; a read that finds the channel dirty     *)
(* always attempts the update, so the next read tries again.  A read whose *)
(* update does not raise returns the cache and leaves nothing dirty.       *)
(***************************************************************************)
UpdateRaises(c, wasDirty) ==
  IF wasDirty.indexType = "Indices" /\ hasUpdateIndexFunction(c)
  THEN \E j \in 1..Len(wasDirty.indices) :
          updateIndexFunctionThrows(c, <<data["list"]>>, wasDirty.indices[j])
  ELSE updateFunctionThrows(c, <<data["list"]>>)

C18_FailedReadKeepsDirty ==
  (op.name = "read" /\ op.c = "listChecked" /\ ~indexEmpty(op.wasDirty)) =>
     /\ Calls("compute", op.c) + Calls("computeAt", op.c) >= 1
     /\ IF UpdateRaises(op.c, op.wasDirty)
        THEN ret = Raised("Error") /\ dirty[op.c] = op.wasDirty
        ELSE ret = cachedData[op.c] /\ dirty[op.c] = indexNone

\* A read that raises at the second dirty index after the update index
\* function succeeded at the first
C18_Witness ==
  /\ op.name = "read" /\ op.c = "listChecked"
  /\ ret = Raised("Error")
  /\ Calls("computeAt", "listChecked") = 2
  /\ dirty["listChecked"] = indices(<<NumKey(0), NumKey(1)>>)
  /\ op.wasDirty = dirty["listChecked"]

(***************************************************************************)
(* C19.  When an update function raises inside the forced read of an eager *)
(* channel while a write is propagated, then after the error has left the  *)
(* write no channel below the written source has an empty dirty set and a  *)
(* cache computed from the value before the write: a channel that is not   *)
(* dirty holds what its function gives for the data as the write left it.  *)
(* The model violates it: the error leaves the loop of the setter, so the  *)
(* edges after the failing one are never followed and timesTwice stays     *)
(* clean with the sum of the old times.                                    *)
(***************************************************************************)
Fresh(c) ==
  CASE c = "textTimes" -> repeat(data["text"], data["times"])
    [] c = "timesTwice" -> add(data["times"], data["times"])
    [] c = "textTimesTwice" ->
         repeat(repeat(data["text"], data["times"]),
                add(data["times"], data["times"]))

C19_ConsistentAfterException ==
  (op.name = "write" /\ ret = Raised("Error")) =>
     \A d \in {"textTimes", "timesTwice", "textTimesTwice"} :
        (d \in Downstream[op.c] /\ indexEmpty(dirty[d])) =>
           cachedData[d] = Fresh(d)

(***************************************************************************)
(* C21.  All is absorbing for merge: when either argument is All the       *)
(* merge is All, whatever the other argument is.                           *)
(***************************************************************************)
C21_AllIsAbsorbing ==
  (op.name = "merge" /\ (op.a = indexAll \/ op.b = indexAll)) =>
     ret.ab = indexAll /\ ret.ba = indexAll

\* All merged with an empty list of keys, and with a list of two keys
C21_Witness ==
  /\ op.name = "merge"
  /\ op.a = indexAll
  /\ op.b \in {indices(<<>>), indices(<<NumKey(1), NumKey(2)>>)}
  /\ ret.ab = indexAll

(***************************************************************************)
(* C22.  None is the identity of merge up to normalization: merging None   *)
(* with x, on either side, gives x normalized; two empty specifiers (None  *)
(* or an empty list of keys, in any combination) merge to None; and no     *)
(* merge returns an Indices specifier with an empty list of keys.          *)
(***************************************************************************)
Normal(x) == IF x = indexNone \/ x = indices(<<>>) THEN indexNone ELSE x

C22_NoneIsIdentity ==
  (op.name = "merge") =>
     /\ (op.a = indexNone) => (ret.ab = Normal(op.b) /\ ret.ba = Normal(op.b))
     /\ (Normal(op.a) = indexNone /\ Normal(op.b) = indexNone) =>
           ret.ab = indexNone
     /\ ret.ab # indices(<<>>)

\* An empty list of keys merged with None, and None merged with two keys
C22_Witness ==
  /\ op.name = "merge"
  /\ \/ op.a = indices(<<>>) /\ op.b = indexNone /\ ret.ab = indexNone
     \/ /\ op.a = indexNone
        /\ op.b = indices(<<NumKey(2), NumKey(1)>>)
        /\ ret.ab = op.b /\ ret.ba = op.b

(***************************************************************************)
(* C23.  For two Indices specifiers merge returns the keys of the first    *)
(* followed by the keys of the second, every later duplicate removed and   *)
(* the order of first occurrence kept (normalized: None when there is no   *)
(* key); a list without duplicates merged with itself is returned as it    *)
(* is.  The model violates it: the merge records the keys it has seen as   *)
(* properties of an object literal, so a key that names a property of      *)
(* Object.prototype counts as seen before the loop starts and is dropped,  *)
(* and a number and the string of its digits count as one key.             *)
(***************************************************************************)
RECURSIVE Dedup(_)
Dedup(keys) ==
  IF keys = <<>> THEN <<>>
  ELSE LET front == Dedup(SubSeq(keys, 1, Len(keys) - 1))
       IN IF keys[Len(keys)] \in KeysOf(front) THEN front
          ELSE Append(front, keys[Len(keys)])

C23_MergeIsOrderedUnion ==
  (op.name = "merge" /\ op.a.indexType = "Indices"
     /\ op.b.indexType = "Indices") =>
     /\ ret.ab = Normal(indices(Dedup(op.a.indices \o op.b.indices)))
     /\ (op.a = op.b /\ NoDuplicates(op.a.indices)) => ret.ab = Normal(op.a)

(***************************************************************************)
(* C24.  merge is commutative up to the order of the keys: merge(a, b) and *)
(* merge(b, a) are the same variant and, when they are Indices, hold the   *)
(* same set of keys.  The model violates it: the merge keeps the first of  *)
(* two keys with the same property name, so the number 1 merged with the   *)
(* string "1" holds the number in one order and the string in the other.   *)
(***************************************************************************)
C24_MergeCommutes ==
  (op.name = "merge") =>
     /\ ret.ab.indexType = ret.ba.indexType
     /\ (ret.ab.indexType = "Indices") =>
           KeysOf(ret.ab.indices) = KeysOf(ret.ba.indices)

(***************************************************************************)
(* C25.  merge is associative, the order of the keys included: for         *)
(* specifiers a, b and c whose key lists have no duplicates,               *)
(* merge(merge(a, b), c) = merge(a, merge(b, c)), so the dirty set a       *)
(* channel accumulates does not depend on how the regions are grouped.     *)
(* The model violates it: a key that names a property of Object.prototype  *)
(* survives a merge with None and is dropped by a merge with a list, and   *)
(* an empty list becomes None when it is merged first.                     *)
(***************************************************************************)
DuplicateFree(x) == x.indexType = "Indices" => NoDuplicates(x.indices)

C25_MergeAssociates ==
  (op.name = "mergeThree" /\ DuplicateFree(op.a) /\ DuplicateFree(op.b)
     /\ DuplicateFree(ret.c)) =>
     ret.left = ret.right

(***************************************************************************)
(* C26.  has(s, k) is true for All, false for None, and for a list of keys *)
(* true exactly when k occurs in the list (the number 1 and the string "1" *)
(* being different keys); so has(Indices([]), k) is false, and an empty    *)
(* specifier has no key.                                                   *)
(***************************************************************************)
C26_HasIsMembership ==
  (op.name = "has") =>
     /\ (op.a.indexType = "All") => ret.a
     /\ (op.a.indexType = "None") => ~ret.a
     /\ (op.a.indexType = "Indices") => (ret.a <=> ret.k \in KeysOf(op.a.indices))
     /\ ret.empty <=> (op.a = indexNone \/ op.a = indices(<<>>))
     /\ ret.empty => ~ret.a

C26_Witness ==
  /\ op.name = "has" /\ op.a = indices(<<>>) /\ ret.k = StrKey("1")
  /\ ret.empty /\ ~ret.a

(***************************************************************************)
(* C27.  unravelData(v) returns a value that holds no channel instance at  *)
(* any depth: every channel met in v, v itself and the channels held in    *)
(* the data of another channel included, is replaced by the value a read   *)
(* of it returns, recursively.                                             *)
(* The model violates it: the data of a channel is returned as the getter  *)
(* gives it, so the channels held in that data stay in the result.         *)
(***************************************************************************)
C27_UnravelLeavesNoChannel ==
  (op.name = "unravelData") => ret.left = {}

(***************************************************************************)
(* C28.  A derived channel that was never read has dirty = All and no      *)
(* cache, and its construction computes nothing, also when it is eager;    *)
(* the first run of its getter calls the full update function exactly      *)
(* once and the updateIndexFunction not at all, whatever setItem, push     *)
(* and insert the input received before.                                   *)
(***************************************************************************)
\* The part of a log from the first call of the getter of c up to its next
\* call
FirstReadOf(events, c) ==
  LET gets == {k \in 1..Len(events) : events[k].e = "get" /\ events[k].c = c}
      first == CHOOSE k \in gets : \A g \in gets : k <= g
      later == gets \ {first}
  IN SubSeq(events, first,
            IF later = {} THEN Len(events)
            ELSE (CHOOSE k \in later : \A g \in later : k <= g) - 1)

UpdatesOf(events, c, e) ==
  Cardinality({k \in 1..Len(events) : events[k].e = e /\ events[k].c = c})

NeverRead ==
  /\ \A c \in Automatic :
        ~everRead[c] => dirty[c] = indexAll /\ cachedData[c] = Undefined
  /\ (op.name = "new") =>
        /\ UpdatesOf(log, op.c, "compute") = 0
        /\ UpdatesOf(log, op.c, "computeAt") = 0

FirstRead ==
  \A c \in Automatic :
     (~everRead[c] /\ c \in GotIn(log')) =>
        /\ UpdatesOf(FirstReadOf(log', c), c, "compute") = 1
        /\ UpdatesOf(FirstReadOf(log', c), c, "computeAt") = 0

C28_FirstReadIsFull == []NeverRead /\ [][FirstRead]_vars

C28_Witness ==
  /\ op.name = "read" /\ op.c = "listMap" /\ ~op.wasRead
  /\ \E j, k \in 1..Len(op.pend) :
        op.pend[j].name = "setItem" /\ op.pend[k].name = "insert"
  /\ UpdatesOf(log, "listMap", "compute") = 1
  /\ \E k \in 1..Len(constructed) : constructed[k] = "listWatch"

(***************************************************************************)
(* C29.  When a write, setItem, push or insert on a source returns, every  *)
(* derived channel that is not eager and is reached from the source has a  *)
(* dirty set that is not empty, and dirty = All after a write; the source  *)
(* marks it on every mutation, also when it was dirty already.             *)
(* The model violates it: insert(length + 1, item) returns after it        *)
(* marked an empty region, and a clean channel stays clean.                *)
(***************************************************************************)
C29_MutationDirtiesDownstream ==
  (op.name \in {"write", "setItem", "push", "insert"} /\ op.c = "list"
     /\ ret = Undefined) =>
     \A c \in Downstream["list"] :
        (Exists(c) /\ ~eager(c)) =>
           /\ ~indexEmpty(dirty[c])
           /\ (op.name = "write") => dirty[c] = indexAll
           /\ \E k \in 1..Len(log) : log[k].e = "markDirty" /\ log[k].c = c

(***************************************************************************)
(* C30.  When a dirty region crosses an edge from u to d in markDirty, the *)
(* cache modifier of the connector is given the cachedData of d, right     *)
(* before the markDirty of d; the cachedData of u is not given to it.      *)
(* The model violates it: the modifier is called with this.cachedData,     *)
(* the cache of the upstream channel whose markDirty is running.           *)
(***************************************************************************)
ModifierThenMark ==
  \A k \in 1..Len(log) :
     (log[k].e = "modify") =>
        /\ k < Len(log)
        /\ log[k + 1].e = "markDirty"
        /\ log[k + 1].c = log[k].to
        /\ log[k + 1].region = log[k].region

C30_ModifierPatchesDownstream ==
  /\ ModifierThenMark
  /\ \A k \in 1..Len(log) :
        (log[k].e = "modify") => log[k].c = log[k].to /\ log[k].c # log[k].by

(***************************************************************************)
(* C31.  Whenever markDirty invokes the connector of an edge from u to d,  *)
(* the connector is the one d registered for the position of u in its      *)
(* inputs, and the position it is given is that input position, not the    *)
(* index of the edge among the outgoing edges of u.                        *)
(* The model violates it: the connector is given the index of the loop     *)
(* over the connectedChannels of u.                                        *)
(***************************************************************************)
C31_ConnectorGetsInputPosition ==
  \A k \in 1..Len(log) :
     (log[k].e = "modify") =>
        /\ incomingChannels(log[k].to)[log[k].input + 1] = log[k].c
        /\ log[k].i = log[k].input

(***************************************************************************)
(* C32.  In every reachable state the dirty set stored in a channel is     *)
(* normalized: All, None, or a list of keys that is not empty and holds no *)
(* key twice, whatever write, setItem, push, insert and read came before.  *)
(***************************************************************************)
C32_DirtyIsNormalized ==
  \A c \in Automatic :
     \/ dirty[c] = indexAll
     \/ dirty[c] = indexNone
     \/ /\ dirty[c].indexType = "Indices"
        /\ Len(dirty[c].indices) > 0
        /\ NoDuplicates(dirty[c].indices)

C32_Witness ==
  /\ op.name = "insert" /\ op.region = indices(<<>>) /\ ret = Undefined
  /\ everRead["listMap"] /\ dirty["listMap"] = indexNone

(***************************************************************************)
(* C33.  In markDirty on an eager channel the forced read of its own data  *)
(* comes after the region went to every outgoing edge and the recursion    *)
(* below each edge has finished: never before an edge or between two.      *)
(***************************************************************************)
\* The position of the markDirty of c that the forced read at position k of
\* the log belongs to: the last one before it
MarkOf(k) ==
  CHOOSE m \in 1..(k - 1) :
     /\ log[m].e = "markDirty" /\ log[m].c = log[k].c
     /\ \A j \in (m + 1)..(k - 1) :
           ~(log[j].e = "markDirty" /\ log[j].c = log[k].c)

\* How many events e of channel c the log holds between positions m and k
Between(m, k, e, c) ==
  Cardinality({j \in (m + 1)..(k - 1) : log[j].e = e /\ log[j].c = c})

C33_ForcedReadAfterPropagation ==
  \A k \in 1..Len(log) :
     (log[k].e = "force") =>
        /\ \E m \in 1..(k - 1) : log[m].e = "markDirty" /\ log[m].c = log[k].c
        /\ Between(MarkOf(k), k, "modify", log[k].c) =
              Len(connectedChannels[log[k].c] \o ConnectedBy(constructed, log[k].c))
        /\ Between(MarkOf(k), k, "force", log[k].c) = 0
        /\ \A d \in Automatic :
              Between(MarkOf(k), k, "force", d) =
                 IF eager(d) THEN Between(MarkOf(k), k, "markDirty", d) ELSE 0

C33_Witness ==
  /\ op.name = "write" /\ Exists("fragmentCopy")
  /\ \E k \in 1..Len(log) :
        /\ log[k].e = "force" /\ log[k].c = "fragment"
        /\ Between(MarkOf(k), k, "force", "fragmentCopy") = 1

(***************************************************************************)
(* C34.  When a mutation of a source returns without raising, every eager  *)
(* derived channel reached from the source has an empty dirty set and a    *)
(* cache equal to its update function on the current data of its inputs;   *)
(* between operations an eager channel is dirty only if no getter of it    *)
(* ever ran.                                                               *)
(* The model violates it: insert(length + 1, v) appends v and marks the    *)
(* empty region (see C20), so the forced read returns the cache of the     *)
(* list without v.                                                         *)
(***************************************************************************)
C34_EagerIsCurrent ==
  /\ (op.c = "list" /\ op.name \in {"write", "push", "insert", "setItem"}
        /\ ret = Undefined) =>
        \A c \in Downstream["list"] :
           (Exists(c) /\ eager(c)) =>
              /\ indexEmpty(dirty[c])
              /\ cachedData[c] = updateFunction(c, <<data["list"]>>)
  /\ \A c \in Automatic :
        (Exists(c) /\ eager(c) /\ ~indexEmpty(dirty[c])) => ~everRead[c]

(***************************************************************************)
(* C35.  Between operations a derived channel with an empty dirty set has  *)
(* only derived inputs with an empty dirty set: no channel is clean while  *)
(* a derived ancestor of it is dirty.                                      *)
(* The model violates it: an update that raises inside a forced read ends  *)
(* the loop of markDirty (see C19), so the channel stays dirty and the     *)
(* edges after the eager one are never marked.                             *)
(***************************************************************************)
C35_CleanBelowClean ==
  \A c \in Automatic :
     (Exists(c) /\ indexEmpty(dirty[c])) =>
        \A j \in 1..Len(incomingChannels(c)) :
           incomingChannels(c)[j] \in Automatic =>
              indexEmpty(dirty[incomingChannels(c)[j]])

(***************************************************************************)
(* C36.  During one write to a source, an eager derived channel reached    *)
(* from the source along k paths of edges (a diamond, or one channel       *)
(* listed twice as an input) has markDirty and its forced read called k    *)
(* times and its update function run k times, not once.  The forced read   *)
(* itself finds the channel dirty unless an eager channel below it read    *)
(* it already within the same markDirty.                                   *)
(***************************************************************************)
\* The number of paths of edges from channel s to channel c, counted over the
\* inputs of c from position j on
RECURSIVE PathsVia(_, _, _)
PathsVia(s, c, j) ==
  IF j > Len(incomingChannels(c)) THEN 0
  ELSE (IF incomingChannels(c)[j] = s THEN 1
        ELSE IF incomingChannels(c)[j] \in Automatic
             THEN PathsVia(s, incomingChannels(c)[j], 1)
             ELSE 0) + PathsVia(s, c, j + 1)

Paths(s, c) == PathsVia(s, c, 1)

\* Whether some eager channel that exists has c among its inputs
HasEagerBelow(c) ==
  \E d \in Automatic :
     /\ Exists(d) /\ eager(d)
     /\ \E j \in 1..Len(incomingChannels(d)) : incomingChannels(d)[j] = c

\* The forced reads of c in the log that found c dirty
ForcedDirty(c) ==
  Cardinality({k \in 1..Len(log) :
                 log[k].e = "force" /\ log[k].c = c /\ c \notin log[k].clean})

RECURSIVE MarkedKeys(_)
MarkedKeys(pend) ==
  IF pend = <<>> THEN <<>>
  ELSE MarkedKeys(SubSeq(pend, 1, Len(pend) - 1))
         \o pend[Len(pend)].region.indices

\* The cache after the update index function of c ran on keys[j], keys[j + 1],
\* ... in turn
RECURSIVE PatchedBy(_, _, _, _)
PatchedBy(c, cache, keys, j) ==
  IF j > Len(keys) THEN cache
  ELSE PatchedBy(c,
                 updateIndexFunction(c, <<data[incomingChannels(c)[1]]>>,
                                     cache, keys[j]),
                 keys, j + 1)

C37_ComputeAtInMarkOrder ==
  (op.name = "read" /\ op.c \in {"listMap", "dictionaryMap"}
     /\ op.wasDirty.indexType = "Indices") =>
     /\ ComputeAtKeys(op.c) = Dedup(MarkedKeys(op.pend))
     /\ ret = PatchedBy(op.c, op.prev, Dedup(MarkedKeys(op.pend)), 1)

(***************************************************************************)
(* C38.  On a graph built by constructing derived channels on channels     *)
(* that exist, every mutation of a source and every read comes to an end:  *)
(* each edge markDirty follows leads to a channel further from the         *)
(* sources, each getter a getter calls is nearer to them, and a write      *)
(* marks each channel once for each path of edges from the source, so the  *)
(* walk visits finitely many edges and the reads end at the data channels. *)
(***************************************************************************)
\* The length of the longest chain of inputs from channel c down to a data
\* channel
RECURSIVE Rank(_)
Rank(c) ==
  IF c \in DataChannels \/ Len(incomingChannels(c)) = 0 THEN 0
  ELSE LET below == {Rank(incomingChannels(c)[j]) :
                       j \in 1..Len(incomingChannels(c))}
       IN 1 + (CHOOSE r \in below : \A other \in below : other <= r)

C38_OperationsTerminate ==
  /\ \A k \in 1..Len(log) :
        /\ (log[k].e = "modify") => Rank(log[k].c) < Rank(log[k].to)
        /\ (log[k].e = "get" /\ log[k].by \notin {"", log[k].c}) =>
              Rank(log[k].c) < Rank(log[k].by)
        /\ (log[k].e = "get" /\ log[k].c \in DataChannels) =>
              (k = Len(log) \/ log[k + 1].by # log[k].c)
  /\ (op.name = "write") =>
        \A c \in Automatic :
           Exists(c) => Calls("markDirty", c) = Paths(op.c, c)

C38_Witness ==
  /\ op.name = "write" /\ op.c = "times" /\ Exists("fragmentCopy")
  /\ Calls("markDirty", "fragmentCopy") = 3
  /\ Rank("fragmentCopy") = 4
  /\ \E k \in 1..Len(log) :
        log[k].e = "get" /\ log[k].c = "times" /\ log[k].by = "timesTwice"

(***************************************************************************)
(* C39.  merge is set union as has sees it: for every pair of specifiers   *)
(* a and b and every key k, numbers and strings together,                  *)
(* has(merge(a, b), k) is has(a, k) or has(b, k).                          *)
(***************************************************************************)
C39_MergeIsUnionUnderHas ==
  (op.name = "has") => (ret.merged <=> (ret.a \/ ret.b))

(***************************************************************************)
(* C40.  An operation of a List that raises leaves the state as it was: if *)
(* insert(i, v) raises, the list of the source and the dirty set of every  *)
(* downstream channel are the same as before the call.                     *)
(***************************************************************************)
C40_RaisingInsertChangesNothing ==
  [][(op'.name = "insert" /\ ret' = Raised("RangeError")) =>
        /\ data'["list"] = data["list"]
        /\ dirty' = dirty]_vars
====
